---- MODULE Spec2Model ----
(***************************************************************************)
(* A model of the arithmetic interpreter of src/basic.js: run(input,       *)
(* fileName) lexes the text (Lexer.makeTokens), parses the tokens          *)
(* (Parser.parse) and evaluates the tree (Interpreter.visit).              *)
(*                                                                         *)
(* Characters are one-character strings, the input is a sequence of       *)
(* characters.  JavaScript numbers are modelled as signed rationals in    *)
(* lowest terms together with the two infinities, NaN and the sign of     *)
(* zero; the rounding of IEEE-754 doubles is not modelled.                *)
(***************************************************************************)
EXTENDS Integers, Sequences, FiniteSets, TLC

(***************************************************************************)
(* Bounds of the model.                                                    *)
(***************************************************************************)
\* longest input drawn from the whole alphabet
MaxLen == 3
\* longest input drawn from digits and the four operators
MaxExprLen == 5
\* longest text between the parentheses of a parenthesised input
MaxInner == 3

(***************************************************************************)
(* JavaScript values that are not numbers.                                 *)
(***************************************************************************)
Null == "null"
Undefined == "undefined"

(***************************************************************************)
(* Token types, src/basic.js:66-74.                                        *)
(***************************************************************************)
TT_INT == "INT"
TT_FLOAT == "FLOAT"
TT_ADD == "ADD"
TT_SUBTRACT == "SUBTRACT"
TT_MULTIPLY == "MULTIPLY"
TT_DIVIDE == "DIVIDE"
TT_LPAREN == "LPARAEN"
TT_RPAREN == "RPARAEN"
TT_EOF == "TT_EOF"

(***************************************************************************)
(* Numbers.  A number is [k, neg, n, d]: k = "fin" is the rational         *)
(* (-1)^neg * n / d in lowest terms (zero is 0/1 and keeps its sign),      *)
(* k = "inf" is the infinity of that sign, k = "nan" is NaN.  NoNumber is  *)
(* the null stored as the value of a token that is not a number.           *)
(***************************************************************************)
RECURSIVE Gcd(_, _)
Gcd(a, b) == IF b = 0 THEN a ELSE Gcd(b, a % b)

Fin(neg, n, d) ==
  LET g == Gcd(n, d)
  IN [k |-> "fin", neg |-> neg, n |-> n \div g, d |-> d \div g]

Inf(neg) == [k |-> "inf", neg |-> neg, n |-> 1, d |-> 0]
NaN == [k |-> "nan", neg |-> FALSE, n |-> 0, d |-> 0]
NoNumber == [k |-> "null", neg |-> FALSE, n |-> 0, d |-> 0]
MinusOne == Fin(TRUE, 1, 1)

IsZero(a) == a.k = "fin" /\ a.n = 0

\* a.value + b.value of IEEE-754 (src/basic.js:414)
Plus(a, b) ==
  IF a.k = "nan" \/ b.k = "nan" THEN NaN
  ELSE IF a.k = "inf" /\ b.k = "inf"
       THEN (IF a.neg = b.neg THEN a ELSE NaN)
  ELSE IF a.k = "inf" THEN a
  ELSE IF b.k = "inf" THEN b
  ELSE LET sa == IF a.neg THEN 0 - a.n ELSE a.n
           sb == IF b.neg THEN 0 - b.n ELSE b.n
           s  == sa * b.d + sb * a.d
       IN IF s = 0 THEN Fin(a.neg /\ b.neg, 0, 1)
          ELSE IF s < 0 THEN Fin(TRUE, 0 - s, a.d * b.d)
          ELSE Fin(FALSE, s, a.d * b.d)

\* -b.value
Negated(b) == IF b.k = "nan" THEN NaN ELSE [b EXCEPT !.neg = ~b.neg]

\* a.value - b.value (src/basic.js:419)
Minus(a, b) == Plus(a, Negated(b))

\* a.value * b.value (src/basic.js:424)
Times(a, b) ==
  IF a.k = "nan" \/ b.k = "nan" THEN NaN
  ELSE IF (a.k = "inf" /\ IsZero(b)) \/ (IsZero(a) /\ b.k = "inf") THEN NaN
  ELSE IF a.k = "inf" \/ b.k = "inf" THEN Inf(a.neg # b.neg)
  ELSE Fin(a.neg # b.neg, a.n * b.n, a.d * b.d)

\* a.value / b.value (src/basic.js:429)
Over(a, b) ==
  IF a.k = "nan" \/ b.k = "nan" THEN NaN
  ELSE IF a.k = "inf" /\ b.k = "inf" THEN NaN
  ELSE IF a.k = "inf" THEN Inf(a.neg # b.neg)
  ELSE IF b.k = "inf" THEN Fin(a.neg # b.neg, 0, 1)
  ELSE IF IsZero(b) THEN (IF IsZero(a) THEN NaN ELSE Inf(a.neg # b.neg))
  ELSE Fin(a.neg # b.neg, a.n * b.d, a.d * b.n)

(***************************************************************************)
(* Characters.                                                             *)
(***************************************************************************)
\* Lexer.digits, src/basic.js:97
digits == {"0", "1", "2", "3", "4", "5", "6", "7", "8", "9"}

DigitValue(c) ==
  CASE c = "0" -> 0 [] c = "1" -> 1 [] c = "2" -> 2 [] c = "3" -> 3
    [] c = "4" -> 4 [] c = "5" -> 5 [] c = "6" -> 6 [] c = "7" -> 7
    [] c = "8" -> 8 [] c = "9" -> 9

RECURSIVE Pow10(_)
Pow10(e) == IF e = 0 THEN 1 ELSE 10 * Pow10(e - 1)

RECURSIVE DigitsValue(_)
\* the decimal value of a sequence of digit characters (0 when empty)
DigitsValue(s) ==
  IF s = <<>> THEN 0
  ELSE 10 * DigitsValue(SubSeq(s, 1, Len(s) - 1)) + DigitValue(s[Len(s)])

\* parseInt(numberString) on a non-empty string of decimal digits
parseInt(numberString) == Fin(FALSE, DigitsValue(numberString), 1)

\* parseFloat(numberString) on digits '.' digits* (the part after the dot may
\* be empty: parseFloat("2.") is 2)
parseFloat(numberString) ==
  LET dot  == CHOOSE i \in 1..Len(numberString) : numberString[i] = "."
      ip   == SubSeq(numberString, 1, dot - 1)
      fp   == SubSeq(numberString, dot + 1, Len(numberString))
  IN Fin(FALSE, DigitsValue(ip) * Pow10(Len(fp)) + DigitsValue(fp),
         Pow10(Len(fp)))

(***************************************************************************)
(* The state of one call run(input, fileName), src/basic.js:507-521.       *)
(***************************************************************************)
VARIABLES
  pc,            \* the statement of run that executes next
  input,         \* run's first argument, a sequence of characters
  fileName,      \* run's second argument
  position,      \* the Position object of the lexer (Lexer.position)
  currentChar,   \* Lexer.currentChar
  tokens,        \* the array built by makeTokens
  tokenIndex,    \* Parser.tokenIndex
  currentToken,  \* Parser.currentToken
  parseResult,   \* the local parseResult of Parser.parse
  ast,           \* the local ast of run
  result,        \* the value run returns
  thrown,        \* the arguments of the error constructor run threw with
  error,         \* the error object the caller of run catches
  printed        \* what the shell wrote last with console.log

vars == <<pc, input, fileName, position, currentChar, tokens, tokenIndex,
          currentToken, parseResult, ast, result, thrown, error, printed>>

(***************************************************************************)
(* Objects.                                                                *)
(***************************************************************************)
\* new Position(), src/basic.js:42-46
Position == [index |-> 0, lineNumber |-> 0, column |-> 0]

\* Position.advance(currentChar), src/basic.js:52-62
Position_advance(pos, char) ==
  IF char = "\n"
  THEN [index |-> pos.index + 1, lineNumber |-> pos.lineNumber + 1,
        column |-> 0]
  ELSE [index |-> pos.index + 1, lineNumber |-> pos.lineNumber,
        column |-> pos.column + 1]

\* A call of run allocates one Position object (src/basic.js:107) and every
\* token is constructed with this.position, a reference to that object: the
\* position field of a token is the reference, the object is the variable
\* position.
LexerPosition == "Lexer.position"

\* new Token(type, value, position), src/basic.js:86-90
Token(type, value, pos) == [type |-> type, value |-> value, position |-> pos]

\* a variable or field that holds no object
Nothing == [class |-> "undefined"]
NullNode == [class |-> "null"]

\* src/basic.js:209-212
NumberNode(token) == [class |-> "NumberNode", token |-> token]

\* src/basic.js:227-232
BinaryOperationNode(leftNode, rightNode, operatorToken) ==
  [class |-> "BinaryOperationNode", leftNode |-> leftNode,
   rightNode |-> rightNode, operatorToken |-> operatorToken]

\* src/basic.js:245-249
UnaryOperationNode(operatorToken, node) ==
  [class |-> "UnaryOperationNode", operatorToken |-> operatorToken,
   node |-> node]

\* new ParseResult().success(node), src/basic.js:259-281
ParseResult(node) == [class |-> "ParseResult", node |-> node]

\* new NumberValue(value).setPosition(pos), src/basic.js:402-410
NumberValue(value, pos) ==
  [class |-> "NumberValue", value |-> value, position |-> pos]

(***************************************************************************)
(* Errors.  Both classes call super(message, fileName, lineNumber).  The   *)
(* constructor of Error takes (message, options): it installs message, and *)
(* reads options only for a cause when options is an object, so the second *)
(* and third arguments leave no property on the error object.              *)
(***************************************************************************)
\* the built-in Error(message, options): the own properties of the new object
Error(class, message, options, extra) ==
  [class |-> class, message |-> message]

\* what `new IllegalCharError(char, fileName, lineNumber)` is called with
IllegalCharArgs(char, fName, lineNumber) ==
  [class |-> "IllegalCharError", arg |-> char, fileName |-> fName,
   lineNumber |-> lineNumber]

\* what `new InvalidSyntaxError(syntax, fileName, lineNumber)` is called with
InvalidSyntaxArgs(syntax, fName, lineNumber) ==
  [class |-> "InvalidSyntaxError", arg |-> syntax, fileName |-> fName,
   lineNumber |-> lineNumber]

NoThrow == [class |-> "none", arg |-> "", fileName |-> "", lineNumber |-> 0]

\* IllegalCharError's constructor, src/basic.js:12-14
IllegalCharError(char, fName, lineNumber) ==
  Error("IllegalCharError", "'" \o char \o "' is an illegal character",
        fName, lineNumber)

\* InvalidSyntaxError's constructor, src/basic.js:27-29
InvalidSyntaxError(syntax, fName, lineNumber) ==
  Error("InvalidSyntaxError", "'" \o syntax \o "' invalid syntax",
        fName, lineNumber)

\* the object `new C(...)` evaluates to, for the constructor call a
New(a) ==
  IF a.class = "IllegalCharError"
  THEN IllegalCharError(a.arg, a.fileName, a.lineNumber)
  ELSE InvalidSyntaxError(a.arg, a.fileName, a.lineNumber)

(***************************************************************************)
(* Lexer, src/basic.js:96-193.  The lexer's mutable fields are the record  *)
(* [position, currentChar].                                                *)
(***************************************************************************)
\* `c != null` of JavaScript: false for null and for undefined
NotNull(c) == c # Null /\ c # Undefined

\* input[i] of JavaScript, i counted from 0
CharAt(inp, i) == IF i < Len(inp) THEN inp[i + 1] ELSE Undefined

\* Lexer.advance, src/basic.js:115-120
Lexer_advance(inp, lx) ==
  LET pos == Position_advance(lx.position, lx.currentChar)
  IN [position |-> pos,
      currentChar |-> IF pos.index < Len(inp) THEN inp[pos.index + 1]
                      ELSE Null]

RECURSIVE makeNumberLoop(_, _, _, _)
\* a loop that ends in front of the first '.'
makeNumberLoop_StopAtDot(inp, lx, numberString, hasDot) ==
  IF NotNull(lx.currentChar) /\ lx.currentChar \in digits
  THEN makeNumberLoop(inp, Lexer_advance(inp, lx),
                      Append(numberString, lx.currentChar), hasDot)
  ELSE [lx |-> lx, numberString |-> numberString, hasDot |-> hasDot]

\* the while loop of makeNumber, src/basic.js:175-185
makeNumberLoop(inp, lx, numberString, hasDot) ==
  IF NotNull(lx.currentChar)
     /\ (lx.currentChar \in digits \/ lx.currentChar = ".")
  THEN IF lx.currentChar = "." /\ hasDot
       THEN [lx |-> lx, numberString |-> numberString, hasDot |-> hasDot]
       ELSE makeNumberLoop(inp, Lexer_advance(inp, lx),
                           Append(numberString, lx.currentChar),
                           hasDot \/ lx.currentChar = ".")
  ELSE [lx |-> lx, numberString |-> numberString, hasDot |-> hasDot]

\* Lexer.makeNumber, src/basic.js:171-192: the token and the lexer after it
makeNumber(inp, lx) ==
  LET r == makeNumberLoop(inp, lx, <<>>, FALSE)
  IN [lx |-> r.lx,
      token |-> IF r.hasDot
                THEN Token(TT_FLOAT, parseFloat(r.numberString), LexerPosition)
                ELSE Token(TT_INT, parseInt(r.numberString), LexerPosition)]

\* the characters of the else-if chain of makeTokens, src/basic.js:135-152
OperatorChars == {"+", "-", "*", "/", "(", ")"}

OperatorType(c) ==
  CASE c = "+" -> TT_ADD [] c = "-" -> TT_SUBTRACT [] c = "*" -> TT_MULTIPLY
    [] c = "/" -> TT_DIVIDE [] c = "(" -> TT_LPAREN [] c = ")" -> TT_RPAREN

\* a lexer that skips spaces only
Whitespace_SpaceOnly == {" "}

\* a lexer that skips line ends too
Whitespace_Newline == {" ", "\t", "\n"}

\* src/basic.js:132
Whitespace == {" ", "\t"}

(***************************************************************************)
(* Parser, src/basic.js:287-399.  The parser's mutable fields are the      *)
(* record p = [tokenIndex, currentToken]; a parsing method yields          *)
(* [threw, p, node, thrown]: either the node it returns (inside its        *)
(* ParseResult) and the parser after the call, or the constructor call of  *)
(* the error it threw.                                                     *)
(***************************************************************************)
\* token.position.lineNumber: the token's position is the lexer's Position
\* object, read when the parser runs
LineNumberOf(token) == position.lineNumber

\* new Parser(fileName, tokens), src/basic.js:293-298
Parser(toks) == [tokenIndex |-> 0, currentToken |-> toks[1]]

\* an advance that reads past the end of the token array
Parser_advance_PastEnd(toks, p) ==
  LET i == p.tokenIndex + 1
  IN [tokenIndex |-> i,
      currentToken |-> IF i < Len(toks) THEN toks[i + 1] ELSE Nothing]

\* Parser.advance, src/basic.js:304-309
Parser_advance(toks, p) ==
  LET i == p.tokenIndex + 1
  IN [tokenIndex |-> i,
      currentToken |-> IF i < Len(toks) THEN toks[i + 1] ELSE p.currentToken]

Success(p, node) ==
  [threw |-> FALSE, p |-> p, node |-> node, thrown |-> NoThrow]

Throw(p, args) ==
  [threw |-> TRUE, p |-> p, node |-> NullNode, thrown |-> args]

\* the operator types of term, src/basic.js:366
TermOperators == {TT_MULTIPLY, TT_DIVIDE}

\* the operator types of expression, src/basic.js:374
ExpressionOperators == {TT_ADD, TT_SUBTRACT}

RECURSIVE factor(_, _), binaryOperation(_, _, _, _),
          binaryOperationLoop(_, _, _, _, _)

\* term with the operator types of both levels: one level of precedence
term_OneLevel(toks, p) ==
  binaryOperation(toks, p, TRUE, TermOperators \cup ExpressionOperators)

\* Parser.term, src/basic.js:365-367
term(toks, p) == binaryOperation(toks, p, TRUE, TermOperators)

\* Parser.expression, src/basic.js:373-375
expression(toks, p) == binaryOperation(toks, p, FALSE, ExpressionOperators)

\* factor parsing a term, not an expression, between the parentheses
factor_TermInParens(toks, p) ==
  LET token == p.currentToken
  IN IF token.type \in {TT_ADD, TT_SUBTRACT}
     THEN LET r == factor(toks, Parser_advance(toks, p))
          IN IF r.threw THEN r
             ELSE Success(r.p, UnaryOperationNode(token, r.node))
     ELSE IF token.type \in {TT_INT, TT_FLOAT}
     THEN Success(Parser_advance(toks, p), NumberNode(token))
     ELSE IF token.type = TT_LPAREN
     THEN LET r == term(toks, Parser_advance(toks, p))
          IN IF r.threw THEN r
             ELSE IF r.p.currentToken.type = TT_RPAREN
             THEN Success(Parser_advance(toks, r.p), r.node)
             ELSE Throw(r.p, InvalidSyntaxArgs("Expected ')'", fileName,
                                               LineNumberOf(token)))
     ELSE Throw(p, InvalidSyntaxArgs("Expected int or float", fileName,
                                     LineNumberOf(token)))

\* factor taking whatever follows the inner expression for the ')'
factor_NoCloseCheck(toks, p) ==
  LET token == p.currentToken
  IN IF token.type \in {TT_ADD, TT_SUBTRACT}
     THEN LET r == factor(toks, Parser_advance(toks, p))
          IN IF r.threw THEN r
             ELSE Success(r.p, UnaryOperationNode(token, r.node))
     ELSE IF token.type \in {TT_INT, TT_FLOAT}
     THEN Success(Parser_advance(toks, p), NumberNode(token))
     ELSE IF token.type = TT_LPAREN
     THEN LET r == expression(toks, Parser_advance(toks, p))
          IN IF r.threw THEN r
             ELSE Success(Parser_advance(toks, r.p), r.node)
     ELSE Throw(p, InvalidSyntaxArgs("Expected int or float", fileName,
                                     LineNumberOf(token)))

\* factor applying a sign to the whole expression that follows it
factor_SignOfExpression(toks, p) ==
  LET token == p.currentToken
  IN IF token.type \in {TT_ADD, TT_SUBTRACT}
     THEN LET r == expression(toks, Parser_advance(toks, p))
          IN IF r.threw THEN r
             ELSE Success(r.p, UnaryOperationNode(token, r.node))
     ELSE IF token.type \in {TT_INT, TT_FLOAT}
     THEN Success(Parser_advance(toks, p), NumberNode(token))
     ELSE IF token.type = TT_LPAREN
     THEN LET r == expression(toks, Parser_advance(toks, p))
          IN IF r.threw THEN r
             ELSE IF r.p.currentToken.type = TT_RPAREN
             THEN Success(Parser_advance(toks, r.p), r.node)
             ELSE Throw(r.p, InvalidSyntaxArgs("Expected ')'", fileName,
                                               LineNumberOf(token)))
     ELSE Throw(p, InvalidSyntaxArgs("Expected int or float", fileName,
                                     LineNumberOf(token)))

\* Parser.factor, src/basic.js:329-359
factor(toks, p) ==
  LET token == p.currentToken
  IN IF token.type \in {TT_ADD, TT_SUBTRACT}
     THEN LET r == factor(toks, Parser_advance(toks, p))
          IN IF r.threw THEN r
             ELSE Success(r.p, UnaryOperationNode(token, r.node))
     ELSE IF token.type \in {TT_INT, TT_FLOAT}
     THEN Success(Parser_advance(toks, p), NumberNode(token))
     ELSE IF token.type = TT_LPAREN
     THEN LET r == expression(toks, Parser_advance(toks, p))
          IN IF r.threw THEN r
             ELSE IF r.p.currentToken.type = TT_RPAREN
             THEN Success(Parser_advance(toks, r.p), r.node)
             ELSE Throw(r.p, InvalidSyntaxArgs("Expected ')'", fileName,
                                               LineNumberOf(token)))
     ELSE Throw(p, InvalidSyntaxArgs("Expected int or float", fileName,
                                     LineNumberOf(token)))

\* the loop with the right operand parsed by binaryOperation itself: the
\* chain groups to the right
binaryOperationLoop_Right(toks, p, left, shouldFactor, operatorTypes) ==
  IF p.currentToken.type \in operatorTypes
  THEN LET operatorNode == p.currentToken
           r == binaryOperation(toks, Parser_advance(toks, p), shouldFactor,
                                operatorTypes)
       IN IF r.threw THEN r
          ELSE Success(r.p, BinaryOperationNode(left, r.node, operatorNode))
  ELSE Success(p, left)

\* the while loop of binaryOperation, src/basic.js:388-397
binaryOperationLoop(toks, p, left, shouldFactor, operatorTypes) ==
  IF p.currentToken.type \in operatorTypes
  THEN LET operatorNode == p.currentToken
           r == IF shouldFactor
                THEN factor(toks, Parser_advance(toks, p))
                ELSE term(toks, Parser_advance(toks, p))
       IN IF r.threw THEN r
          ELSE binaryOperationLoop(
                 toks, r.p, BinaryOperationNode(left, r.node, operatorNode),
                 shouldFactor, operatorTypes)
  ELSE Success(p, left)

\* Parser.binaryOperation, src/basic.js:382-398
binaryOperation(toks, p, shouldFactor, operatorTypes) ==
  LET l == IF shouldFactor THEN factor(toks, p) ELSE term(toks, p)
  IN IF l.threw THEN l
     ELSE binaryOperationLoop(toks, l.p, l.node, shouldFactor, operatorTypes)

\* parse without the test for the end of the input
parseCheck_NoCheck(r) == r

\* Parser.parse, src/basic.js:314-323, after its first statement: r is what
\* this.expression() yielded
parseCheck(r) ==
  IF r.p.currentToken.type # TT_EOF
  THEN Throw(r.p, InvalidSyntaxArgs("Expected '+', '-', '*', or '/'",
                                    fileName,
                                    LineNumberOf(r.p.currentToken)))
  ELSE r

\* Parser.parse, src/basic.js:314-323
parse(toks, p) ==
  LET r == expression(toks, p)
  IN IF r.threw THEN r ELSE parseCheck(r)

(***************************************************************************)
(* Interpreter, src/basic.js:401-497.                                      *)
(***************************************************************************)
\* NumberValue.addedTo, src/basic.js:412-415
addedTo(a, b) == NumberValue(Plus(a.value, b.value), Undefined)

\* NumberValue.subractedBy, src/basic.js:417-420
subractedBy(a, b) == NumberValue(Minus(a.value, b.value), Undefined)

\* NumberValue.multipliedBy, src/basic.js:422-425
multipliedBy(a, b) == NumberValue(Times(a.value, b.value), Undefined)

\* a division that refuses a zero divisor: it gives no number
dividedBy_Checked(a, b) ==
  IF IsZero(b.value) THEN NumberValue(NoNumber, Undefined)
  ELSE NumberValue(Over(a.value, b.value), Undefined)

\* NumberValue.dividedBy, src/basic.js:427-430
dividedBy(a, b) == NumberValue(Over(a.value, b.value), Undefined)

\* NumberValue.setPosition, src/basic.js:407-410
setPosition(number, pos) == [number EXCEPT !.position = pos]

RECURSIVE visit(_)
\* Interpreter.visitNumberNode, src/basic.js:452-455
visitNumberNode(node) ==
  setPosition(NumberValue(node.token.value, Undefined), node.token.position)

\* Interpreter.visitBinaryOperationNode, src/basic.js:461-482
visitBinaryOperationNode(node) ==
  LET left  == visit(node.leftNode)
      right == visit(node.rightNode)
      type  == node.operatorToken.type
      res   == CASE type = TT_ADD -> addedTo(left, right)
                 [] type = TT_SUBTRACT -> subractedBy(left, right)
                 [] type = TT_MULTIPLY -> multipliedBy(left, right)
                 [] type = TT_DIVIDE -> dividedBy(left, right)
  IN setPosition(res, node.operatorToken.position)

\* Interpreter.visitUnaryOperationNode, src/basic.js:488-496
visitUnaryOperationNode(node) ==
  LET number == visit(node.node)
  IN setPosition(
       IF node.operatorToken.type = TT_SUBTRACT
       THEN multipliedBy(number, NumberValue(MinusOne, Undefined))
       ELSE number,
       node.operatorToken.position)

\* Interpreter.visit, src/basic.js:442-446: dispatch on the node's class name
visit(node) ==
  CASE node.class = "NumberNode" -> visitNumberNode(node)
    [] node.class = "BinaryOperationNode" -> visitBinaryOperationNode(node)
    [] node.class = "UnaryOperationNode" -> visitUnaryOperationNode(node)

\* an iteration that skips a character it cannot take and reports the
\* rightmost one when the input ends
makeTokensIteration_Last(inp, fName, lx, toks) ==
  LET c == lx.currentChar
      bad == {i \in (lx.position.index + 1)..Len(inp) :
                inp[i] \notin (Whitespace \cup digits \cup OperatorChars)}
      last == CHOOSE i \in bad : \A k \in bad : k <= i
  IN IF c \in Whitespace
     THEN [threw |-> FALSE, lx |-> Lexer_advance(inp, lx), tokens |-> toks,
           thrown |-> NoThrow]
     ELSE IF c \in digits
     THEN LET r == makeNumber(inp, lx)
          IN [threw |-> FALSE, lx |-> r.lx, tokens |-> Append(toks, r.token),
              thrown |-> NoThrow]
     ELSE IF c \in OperatorChars
     THEN [threw |-> FALSE, lx |-> Lexer_advance(inp, lx),
           tokens |-> Append(toks, Token(OperatorType(c), NoNumber,
                                         LexerPosition)),
           thrown |-> NoThrow]
     ELSE [threw |-> TRUE, lx |-> lx, tokens |-> toks,
           thrown |-> IllegalCharArgs(inp[last], fName,
                                      lx.position.lineNumber)]

(***************************************************************************)
(* One iteration of the while loop of makeTokens, src/basic.js:131-160,    *)
(* from the lexer lx and the token array toks: the lexer and the array     *)
(* after it, or the constructor call of the error it threw.                *)
(***************************************************************************)
makeTokensIteration(inp, fName, lx, toks) ==
  LET c == lx.currentChar
  IN IF c \in Whitespace
     THEN [threw |-> FALSE, lx |-> Lexer_advance(inp, lx), tokens |-> toks,
           thrown |-> NoThrow]
     ELSE IF c \in digits
     THEN LET r == makeNumber(inp, lx)
          IN [threw |-> FALSE, lx |-> r.lx, tokens |-> Append(toks, r.token),
              thrown |-> NoThrow]
     ELSE IF c \in OperatorChars
     THEN [threw |-> FALSE, lx |-> Lexer_advance(inp, lx),
           tokens |-> Append(toks, Token(OperatorType(c), NoNumber,
                                         LexerPosition)),
           thrown |-> NoThrow]
     ELSE [threw |-> TRUE, lx |-> lx, tokens |-> toks,
           thrown |-> IllegalCharArgs(c, fName, lx.position.lineNumber)]

\* an end of makeTokens that pushes the sentinel a second time
makeTokensReturn_Twice(toks) ==
  Append(Append(toks, Token(TT_EOF, NoNumber, LexerPosition)),
         Token(TT_EOF, NoNumber, LexerPosition))

\* the end of makeTokens, src/basic.js:162-164
makeTokensReturn(toks) == Append(toks, Token(TT_EOF, NoNumber, LexerPosition))

RECURSIVE makeTokensLoop(_, _, _, _)
makeTokensLoop(inp, fName, lx, toks) ==
  IF NotNull(lx.currentChar)
  THEN LET r == makeTokensIteration(inp, fName, lx, toks)
       IN IF r.threw THEN r ELSE makeTokensLoop(inp, fName, r.lx, r.tokens)
  ELSE [threw |-> FALSE, lx |-> lx, tokens |-> makeTokensReturn(toks),
        thrown |-> NoThrow]

\* new Lexer(fileName, input), src/basic.js:104-109
Lexer(inp) == [position |-> Position, currentChar |-> CharAt(inp, 0)]

\* new Lexer(fileName, input).makeTokens(), src/basic.js:128-165, as a whole
makeTokens(inp, fName) == makeTokensLoop(inp, fName, Lexer(inp), <<>>)

(***************************************************************************)
(* The inputs of the model.                                                *)
(***************************************************************************)
\* the sequences over A of length at most n
Strs(A, n) == UNION {[1..k -> A] : k \in 0..n}

\* every class of character the lexer distinguishes
Alphabet == {"0", "2", ".", "+", "-", "*", "/", "(", ")", " ", "\t", "\n", "&"}

\* the characters of expressions without parentheses
ExprAlphabet == {"2", "3", "+", "-", "*", "/"}

\* the characters between the parentheses of a parenthesised input
InnerAlphabet == {"2", "3", "+", "-", "*", "(", ")"}

Prefixes == {<<>>, <<"2", "*">>, <<"3", "-">>, <<"-">>, <<"2", "/">>}

Suffixes == {<<>>, <<")">>, <<")", "*", "2">>, <<")", "-", "3">>}

ParenInputs ==
  {l \o <<"(">> \o e \o r :
     l \in Prefixes, e \in Strs(InnerAlphabet, MaxInner), r \in Suffixes}

Inputs ==
  Strs(Alphabet, MaxLen) \cup Strs(ExprAlphabet, MaxExprLen) \cup ParenInputs

\* the lines the shell reads after the first one: inputs that return, one
\* the lexer rejects, ones the parser rejects and the empty line
NextInputs ==
  {<<"2", "*", "3">>, <<"&">>, <<"(">>, <<>>, <<"\t", "2", ".">>,
   <<"2", "/", "0">>, <<"(", "2", ")">>, <<"-", "2", " ", "+">>}

(***************************************************************************)
(* run(input, fileName), src/basic.js:507-521.                             *)
(***************************************************************************)
\* the shell calls run(input, 'stdin') (src/shell.js:12) and run constructs
\* the lexer (src/basic.js:509)
Init ==
  /\ input \in Inputs
  /\ fileName = "stdin"
  /\ pc = "makeTokens"
  /\ position = Lexer(input).position
  /\ currentChar = Lexer(input).currentChar
  /\ tokens = <<>>
  /\ tokenIndex = 0
  /\ currentToken = Nothing
  /\ parseResult = Nothing
  /\ ast = Nothing
  /\ result = Nothing
  /\ thrown = NoThrow
  /\ error = Nothing
  /\ printed = Nothing

lexer == [position |-> position, currentChar |-> currentChar]

\* an iteration of the loop of makeTokens that does not throw
Iterate ==
  LET r == makeTokensIteration(input, fileName, lexer, tokens)
  IN /\ ~r.threw
     /\ position' = r.lx.position
     /\ currentChar' = r.lx.currentChar
     /\ tokens' = r.tokens
     /\ UNCHANGED <<pc, input, fileName, tokenIndex, currentToken,
                    parseResult, ast, result, thrown, error, printed>>

\* src/basic.js:132
SkipWhitespace ==
  /\ pc = "makeTokens" /\ NotNull(currentChar)
  /\ currentChar \in Whitespace
  /\ Iterate

\* src/basic.js:133-134
PushNumber ==
  /\ pc = "makeTokens" /\ NotNull(currentChar)
  /\ currentChar \in digits
  /\ Iterate

\* src/basic.js:135-152
PushOperator ==
  /\ pc = "makeTokens" /\ NotNull(currentChar)
  /\ currentChar \in OperatorChars
  /\ Iterate

\* the lexer recovering from an illegal character: it ends the token array
\* there and run goes on to the parser
ThrowIllegalChar_Recover ==
  LET r == makeTokensIteration(input, fileName, lexer, tokens)
  IN /\ pc = "makeTokens" /\ NotNull(currentChar)
     /\ r.threw
     /\ tokens' = makeTokensReturn(tokens)
     /\ tokenIndex' = Parser(tokens').tokenIndex
     /\ currentToken' = Parser(tokens').currentToken
     /\ pc' = "parse"
     /\ UNCHANGED <<input, fileName, position, currentChar, parseResult, ast,
                    result, thrown, error, printed>>

\* src/basic.js:153-159: the error leaves makeTokens and run
ThrowIllegalChar ==
  LET r == makeTokensIteration(input, fileName, lexer, tokens)
  IN /\ pc = "makeTokens" /\ NotNull(currentChar)
     /\ r.threw
     /\ thrown' = r.thrown
     /\ error' = New(r.thrown)
     /\ pc' = "thrown"
     /\ UNCHANGED <<input, fileName, position, currentChar, tokens,
                    tokenIndex, currentToken, parseResult, ast, result,
                    printed>>

\* src/basic.js:162-164, then run constructs the parser (src/basic.js:513)
ReturnTokens ==
  /\ pc = "makeTokens" /\ ~NotNull(currentChar)
  /\ tokens' = makeTokensReturn(tokens)
  /\ tokenIndex' = Parser(tokens').tokenIndex
  /\ currentToken' = Parser(tokens').currentToken
  /\ pc' = "parse"
  /\ UNCHANGED <<input, fileName, position, currentChar, parseResult, ast,
                 result, thrown, error, printed>>

parser == [tokenIndex |-> tokenIndex, currentToken |-> currentToken]

\* the first statement of Parser.parse, src/basic.js:315
ParseExpression ==
  LET r == expression(tokens, parser)
  IN /\ pc = "parse"
     /\ tokenIndex' = r.p.tokenIndex
     /\ currentToken' = r.p.currentToken
     /\ IF r.threw
        THEN /\ thrown' = r.thrown
             /\ error' = New(r.thrown)
             /\ pc' = "thrown"
             /\ UNCHANGED parseResult
        ELSE /\ parseResult' = ParseResult(r.node)
             /\ pc' = "checkEOF"
             /\ UNCHANGED <<thrown, error>>
     /\ UNCHANGED <<input, fileName, position, currentChar, tokens, ast,
                    result, printed>>

\* the rest of Parser.parse, src/basic.js:316-322, and the assignment of its
\* result to ast (src/basic.js:514)
ParseCheck ==
  LET r == parseCheck(Success(parser, parseResult.node))
  IN /\ pc = "checkEOF"
     /\ IF r.threw
        THEN /\ thrown' = r.thrown
             /\ error' = New(r.thrown)
             /\ pc' = "thrown"
             /\ UNCHANGED ast
        ELSE /\ ast' = parseResult
             /\ pc' = "interpret"
             /\ UNCHANGED <<thrown, error>>
     /\ UNCHANGED <<input, fileName, position, currentChar, tokens,
                    tokenIndex, currentToken, parseResult, result, printed>>

\* src/basic.js:517-520
Interpret ==
  /\ pc = "interpret"
  /\ result' = visit(ast.node)
  /\ pc' = "returned"
  /\ UNCHANGED <<input, fileName, position, currentChar, tokens, tokenIndex,
                 currentToken, parseResult, ast, thrown, error, printed>>

\* the state run starts in: its locals are unset and its lexer is new
\* (src/basic.js:509)
Called(inp) ==
  /\ input' = inp
  /\ fileName' = "stdin"
  /\ pc' = "makeTokens"
  /\ position' = Lexer(inp).position
  /\ currentChar' = Lexer(inp).currentChar
  /\ tokens' = <<>>
  /\ tokenIndex' = 0
  /\ currentToken' = Nothing
  /\ parseResult' = Nothing
  /\ ast' = Nothing
  /\ result' = Nothing
  /\ thrown' = NoThrow
  /\ error' = Nothing

\* a shell whose token array outlives the call that built it
NextLine_KeepTokens ==
  /\ pc \in {"returned", "thrown"}
  /\ printed' = IF pc = "returned" THEN result ELSE error
  /\ \E inp \in NextInputs :
       /\ input' = inp
       /\ fileName' = "stdin"
       /\ pc' = "makeTokens"
       /\ position' = Lexer(inp).position
       /\ currentChar' = Lexer(inp).currentChar
       /\ tokenIndex' = 0
       /\ currentToken' = Nothing
       /\ parseResult' = Nothing
       /\ ast' = Nothing
       /\ result' = Nothing
       /\ thrown' = NoThrow
       /\ error' = Nothing
       /\ UNCHANGED tokens

\* the shell writes what run returned or threw (src/shell.js:13, 15), asks
\* for the next line (src/shell.js:18, 10) and calls run with it
\* (src/shell.js:12)
NextLine ==
  /\ pc \in {"returned", "thrown"}
  /\ printed' = IF pc = "returned" THEN result ELSE error
  /\ \E inp \in NextInputs : Called(inp)

Next ==
  \/ SkipWhitespace
  \/ PushNumber
  \/ PushOperator
  \/ ThrowIllegalChar
  \/ ReturnTokens
  \/ ParseExpression
  \/ ParseCheck
  \/ Interpret
  \/ NextLine

Spec == Init /\ [][Next]_vars

\* a step of the call of run that is under way: run is synchronous, so a call
\* that can take a step takes it; the shell's next line waits for the user
Run == Next /\ pc \notin {"returned", "thrown"}

\* the shell whose first line is empty
LiveInit == Init /\ input = <<>>

FairSpec == LiveInit /\ [][Next]_vars /\ WF_vars(Run)

(***************************************************************************)
(* Reference notions for the properties: the token sequence read as plain  *)
(* arithmetic, independently of the parser.                                *)
(***************************************************************************)
IsNumber(t) == t.type \in {TT_INT, TT_FLOAT}
IsSign(t) == t.type \in {TT_ADD, TT_SUBTRACT}
IsBinary(t) == t.type \in {TT_ADD, TT_SUBTRACT, TT_MULTIPLY, TT_DIVIDE}

\* makeTokens has returned: the token array is complete
Lexed == pc \in {"parse", "checkEOF", "interpret", "returned"}
         \/ (pc = "thrown" /\ thrown.class = "InvalidSyntaxError")

\* the tokens before the sentinel
Body(toks) == SubSeq(toks, 1, Len(toks) - 1)

RECURSIVE FlatFrom(_, _, _)
\* b[i..] is sign* number (binary sign* number)*, read from an operand
\* position (operand) or from behind a number
FlatFrom(b, i, operand) ==
  IF i > Len(b) THEN ~operand
  ELSE IF operand
       THEN (IsSign(b[i]) /\ FlatFrom(b, i + 1, TRUE))
            \/ (IsNumber(b[i]) /\ FlatFrom(b, i + 1, FALSE))
       ELSE IsBinary(b[i]) /\ FlatFrom(b, i + 1, TRUE)

\* a well-formed expression without parentheses, followed by the sentinel
FlatWellFormed(toks) ==
  /\ Len(toks) >= 2
  /\ toks[Len(toks)].type = TT_EOF
  /\ FlatFrom(Body(toks), 1, TRUE)

Apply(type, a, b) ==
  CASE type = TT_ADD -> Plus(a, b)
    [] type = TT_SUBTRACT -> Minus(a, b)
    [] type = TT_MULTIPLY -> Times(a, b)
    [] type = TT_DIVIDE -> Over(a, b)

Operand(v) == [isOp |-> FALSE, type |-> "", value |-> v]
Operator(type) == [isOp |-> TRUE, type |-> type, value |-> NoNumber]

RECURSIVE SignedOperands(_, _, _, _)
\* the signed operands and the binary operators of a flat expression, in
\* order: v1 op v2 op ... vn
SignedOperands(b, i, operand, minus) ==
  IF i > Len(b) THEN <<>>
  ELSE IF operand
       THEN IF b[i].type = TT_SUBTRACT
            THEN SignedOperands(b, i + 1, TRUE, ~minus)
            ELSE IF b[i].type = TT_ADD
            THEN SignedOperands(b, i + 1, TRUE, minus)
            ELSE <<Operand(IF minus THEN Negated(b[i].value)
                           ELSE b[i].value)>>
                 \o SignedOperands(b, i + 1, FALSE, FALSE)
       ELSE <<Operator(b[i].type)>> \o SignedOperands(b, i + 1, TRUE, FALSE)

RECURSIVE Products(_)
\* every chain of '*' and '/' replaced by its value, from left to right
Products(items) ==
  IF Len(items) < 3 THEN items
  ELSE IF items[2].type \in {TT_MULTIPLY, TT_DIVIDE}
       THEN Products(<<Operand(Apply(items[2].type, items[1].value,
                                     items[3].value))>>
                     \o SubSeq(items, 4, Len(items)))
       ELSE <<items[1], items[2]>> \o Products(SubSeq(items, 3, Len(items)))

RECURSIVE Sums(_)
\* the value of v1 op v2 op ... vn taken from left to right
Sums(items) ==
  IF Len(items) < 3 THEN items[1].value
  ELSE Sums(<<Operand(Apply(items[2].type, items[1].value, items[3].value))>>
            \o SubSeq(items, 4, Len(items)))

\* the value of a flat expression grouped by precedence: the products first,
\* then the sums
GroupedValue(toks) == Sums(Products(SignedOperands(Body(toks), 1, TRUE, FALSE)))

\* the value of a flat expression taken strictly from left to right
LeftToRightValue(toks) == Sums(SignedOperands(Body(toks), 1, TRUE, FALSE))

(***************************************************************************)
(* C1: for every well-formed input without parentheses run returns, and    *)
(* the value it returns is the one obtained by evaluating every chain of   *)
(* '*' and '/' first and the '+' and '-' around them afterwards.           *)
(***************************************************************************)
C1_Precedence ==
  (Lexed /\ FlatWellFormed(tokens)) =>
     /\ pc # "thrown"
     /\ pc = "returned" => result.value = GroupedValue(tokens)

\* 2+3*2 has returned 8, where left to right gives 10
C1_Witness ==
  /\ pc = "returned"
  /\ input = <<"2", "+", "3", "*", "2">>
  /\ result.value = Fin(FALSE, 8, 1)
  /\ LeftToRightValue(tokens) = Fin(FALSE, 10, 1)

(***************************************************************************)
(* C2: operators of equal precedence group from left to right: a-b-c is    *)
(* (a-b)-c and a/b/c is (a/b)/c, and the parser builds no BinaryOp whose   *)
(* right child is a BinaryOp of the same level, except for a child that    *)
(* came from parentheses.                                                  *)
(***************************************************************************)
Level(type) == IF type \in {TT_ADD, TT_SUBTRACT} THEN 1 ELSE 2

\* toks is a op b op' c with op and op' of one level
ChainOfThree(toks) ==
  /\ Len(toks) = 6
  /\ IsNumber(toks[1]) /\ IsBinary(toks[2]) /\ IsNumber(toks[3])
  /\ IsBinary(toks[4]) /\ IsNumber(toks[5]) /\ toks[6].type = TT_EOF
  /\ Level(toks[2].type) = Level(toks[4].type)

RECURSIVE RightNested(_)
\* the number of BinaryOps in the tree whose right child is a BinaryOp of the
\* same level
RightNested(node) ==
  CASE node.class = "NumberNode" -> 0
    [] node.class = "UnaryOperationNode" -> RightNested(node.node)
    [] node.class = "BinaryOperationNode" ->
         RightNested(node.leftNode) + RightNested(node.rightNode)
         + (IF /\ node.rightNode.class = "BinaryOperationNode"
               /\ Level(node.rightNode.operatorToken.type)
                    = Level(node.operatorToken.type)
            THEN 1 ELSE 0)

\* the number of '(' tokens
Parentheses(toks) == Cardinality({i \in 1..Len(toks) : toks[i].type = TT_LPAREN})

Parsed == pc \in {"checkEOF", "interpret", "returned"}

C2_LeftAssociative ==
  /\ (pc = "returned" /\ ChainOfThree(tokens)) =>
        result.value = Apply(tokens[4].type,
                             Apply(tokens[2].type, tokens[1].value,
                                   tokens[3].value),
                             tokens[5].value)
  /\ (Lexed /\ ChainOfThree(tokens)) => pc # "thrown"
  /\ Parsed => RightNested(parseResult.node) <= Parentheses(tokens)

\* 2-3-2 has returned -3 (2-(3-2) is 1), and 2/3/2 has returned 1/3
C2_Witness ==
  /\ pc = "returned"
  /\ \/ /\ input = <<"2", "-", "3", "-", "2">>
        /\ result.value = Fin(TRUE, 3, 1)
     \/ /\ input = <<"2", "/", "3", "/", "2">>
        /\ result.value = Fin(FALSE, 1, 3)
  /\ RightNested(ast.node) = 0

(***************************************************************************)
(* The outcome of the parser and the interpreter on a token array: the     *)
(* value returned, or the constructor call of the error thrown.            *)
(***************************************************************************)
Returned(v) == [returned |-> TRUE, value |-> v, thrown |-> NoThrow]
Failed(args) == [returned |-> FALSE, value |-> NoNumber, thrown |-> args]

OutcomeOfTokens(toks) ==
  LET r == parse(toks, Parser(toks))
  IN IF r.threw THEN Failed(r.thrown) ELSE Returned(visit(r.node).value)

\* the outcome of the call of run, once it has ended
Outcome ==
  IF pc = "returned" THEN Returned(result.value) ELSE Failed(thrown)

Ended == pc \in {"returned", "thrown"}

(***************************************************************************)
(* C3: a parenthesised well-formed expression used as an operand counts as *)
(* one unit with the value of the expression alone: whenever input is      *)
(* L ( E ) R and E on its own evaluates to v, run ends as the parser and   *)
(* the interpreter end on the tokens of L, one number token of value v,    *)
(* and the tokens of R.                                                    *)
(***************************************************************************)
\* input is L ( E ) R with '(' at i and ')' at j, E evaluates, L and R lex
Unit(i, j) ==
  /\ input[i] = "(" /\ input[j] = ")"
  /\ LET e == makeTokens(SubSeq(input, i + 1, j - 1), fileName)
     IN ~e.threw /\ OutcomeOfTokens(e.tokens).returned
  /\ ~makeTokens(SubSeq(input, 1, i - 1), fileName).threw
  /\ ~makeTokens(SubSeq(input, j + 1, Len(input)), fileName).threw

\* the tokens of L, a number token with the value of E, the tokens of R
UnitReplaced(i, j) ==
  LET e == makeTokens(SubSeq(input, i + 1, j - 1), fileName)
      l == makeTokens(SubSeq(input, 1, i - 1), fileName)
      r == makeTokens(SubSeq(input, j + 1, Len(input)), fileName)
  IN Body(l.tokens)
     \o <<Token(TT_FLOAT, OutcomeOfTokens(e.tokens).value, LexerPosition)>>
     \o r.tokens

C3_Parentheses ==
  Ended =>
    \A i \in 1..Len(input) : \A j \in (i + 1)..Len(input) :
       Unit(i, j) => Outcome = OutcomeOfTokens(UnitReplaced(i, j))

\* (2+3)*2 has returned 10 and 3-(3-2) has returned 2
C3_Witness ==
  /\ pc = "returned"
  /\ \/ /\ input = <<"(", "2", "+", "3", ")", "*", "2">>
        /\ Unit(1, 5)
        /\ result.value = Fin(FALSE, 10, 1)
     \/ /\ input = <<"3", "-", "(", "3", "-", "2", ")">>
        /\ Unit(3, 7)
        /\ result.value = Fin(FALSE, 2, 1)

(***************************************************************************)
(* C4: a chain of signs in front of an operand negates it once for every   *)
(* '-' and binds tighter than a binary operator: with n '-' signs the      *)
(* operand counts as its value times (-1)^n, in front of a number, in      *)
(* front of a parenthesised expression, and as the left operand of a       *)
(* binary operator.                                                        *)
(***************************************************************************)
RECURSIVE SignsUpTo(_, _)
\* the number of leading sign tokens of toks from index i on
SignsUpTo(toks, i) ==
  IF i <= Len(toks) /\ IsSign(toks[i]) THEN 1 + SignsUpTo(toks, i + 1) ELSE 0

Minuses(toks, n) == Cardinality({i \in 1..n : toks[i].type = TT_SUBTRACT})

\* v times (-1)^m
SignApplied(v, m) == IF m % 2 = 1 THEN Negated(v) ELSE v

C4_SignChains ==
  (Lexed /\ Len(tokens) >= 2) =>
    LET n == SignsUpTo(tokens, 1)
        m == Minuses(tokens, n)
        k == Len(tokens)
    IN \* sign* number
       /\ (n >= 1 /\ k = n + 2 /\ IsNumber(tokens[n + 1])) =>
            /\ pc # "thrown"
            /\ pc = "returned" =>
                 result.value = SignApplied(tokens[n + 1].value, m)
       \* sign* number op number
       /\ (n >= 1 /\ k = n + 4 /\ IsNumber(tokens[n + 1])
             /\ IsBinary(tokens[n + 2]) /\ IsNumber(tokens[n + 3])) =>
            /\ pc # "thrown"
            /\ pc = "returned" =>
                 result.value =
                   Apply(tokens[n + 2].type,
                         SignApplied(tokens[n + 1].value, m),
                         tokens[n + 3].value)
       \* sign* ( flat expression )
       /\ (n >= 1 /\ k >= n + 4 /\ tokens[n + 1].type = TT_LPAREN
             /\ tokens[k - 1].type = TT_RPAREN
             /\ FlatWellFormed(SubSeq(tokens, n + 2, k - 2) \o <<tokens[k]>>))
          =>
            /\ pc # "thrown"
            /\ pc = "returned" =>
                 result.value =
                   SignApplied(GroupedValue(SubSeq(tokens, n + 2, k - 2)
                                            \o <<tokens[k]>>), m)

\* ---2 is -2, --2 is 2, +2 is 2, -(-2) is 2 and -2+3 is 1
C4_Witness ==
  /\ pc = "returned"
  /\ \/ input = <<"-", "-", "-", "2">> /\ result.value = Fin(TRUE, 2, 1)
     \/ input = <<"-", "-", "2">> /\ result.value = Fin(FALSE, 2, 1)
     \/ input = <<"+", "2">> /\ result.value = Fin(FALSE, 2, 1)
     \/ input = <<"-", "(", "-", "2", ")">> /\ result.value = Fin(FALSE, 2, 1)
     \/ input = <<"-", "2", "+", "3">> /\ result.value = Fin(FALSE, 1, 1)

(***************************************************************************)
(* The characters the lexer cannot take, told from the text alone.  A '.'  *)
(* is taken only as the first '.' of a number, that is when the characters *)
(* between the start of its block of digits and dots and itself are digits,*)
(* at least one.                                                           *)
(***************************************************************************)
\* the characters of the claim: space, tab, digit, + - * / ( )
Listed == Whitespace \cup digits \cup OperatorChars

\* the '.' at i of inp is the first '.' of a number
NumberDot(inp, i) ==
  /\ inp[i] = "."
  /\ \E s \in 1..(i - 1) :
        /\ \A k \in s..(i - 1) : inp[k] \in digits
        /\ s = 1 \/ inp[s - 1] \notin (digits \cup {"."})

\* the lexer cannot take the character at i of inp
Offending(inp, i) == inp[i] \notin Listed /\ ~NumberDot(inp, i)

HasOffending(inp) == \E i \in 1..Len(inp) : Offending(inp, i)

\* the index of the leftmost character that satisfies P
Leftmost(inp, P(_, _)) ==
  CHOOSE i \in 1..Len(inp) : P(inp, i) /\ \A k \in 1..(i - 1) : ~P(inp, k)

\* the number of newline characters before index i
LineOf(inp, i) == Cardinality({k \in 1..(i - 1) : inp[k] = "\n"})

(***************************************************************************)
(* C5: run executes lex, parse, evaluate in this order and the first stage *)
(* that fails ends the call: an input with a character the lexer cannot    *)
(* take fails with the IllegalCharError and the parser is never started,   *)
(* whatever the text before it; when parsing fails no tree reaches the     *)
(* interpreter and no value is returned.                                   *)
(***************************************************************************)
StageOrder ==
  /\ pc = "makeTokens" => pc' \in {"makeTokens", "parse", "thrown"}
  /\ pc = "parse" => pc' \in {"checkEOF", "thrown"}
  /\ pc = "checkEOF" => pc' \in {"interpret", "thrown"}
  /\ pc = "interpret" => pc' = "returned"
  \* a run that has ended takes no further step; the next step is a new call
  /\ pc \in {"returned", "thrown"} => pc' \in {pc, "makeTokens"}
  /\ (pc = "makeTokens" /\ pc' = "thrown") =>
        thrown'.class = "IllegalCharError"
  /\ (pc \in {"parse", "checkEOF"} /\ pc' = "thrown") =>
        thrown'.class = "InvalidSyntaxError"

FirstFailureEnds ==
  /\ HasOffending(input) =>
        /\ pc \in {"makeTokens", "thrown"}
        /\ currentToken = Nothing /\ parseResult = Nothing
        /\ pc = "thrown" => thrown.class = "IllegalCharError"
  /\ pc = "thrown" =>
        /\ ast = Nothing /\ result = Nothing
        /\ thrown.class = "IllegalCharError" =>
              currentToken = Nothing /\ parseResult = Nothing
  /\ pc \in {"makeTokens", "parse", "checkEOF"} =>
        ast = Nothing /\ result = Nothing /\ thrown = NoThrow
  /\ pc = "makeTokens" => currentToken = Nothing /\ parseResult = Nothing

C5_Pipeline == [][StageOrder /\ FirstFailureEnds /\ FirstFailureEnds']_vars

\* "*&" has failed with the IllegalCharError of '&' although "*" alone is a
\* syntax error
C5_Witness ==
  /\ pc = "thrown"
  /\ input = <<"*", "&">>
  /\ thrown.class = "IllegalCharError" /\ thrown.arg = "&"
  /\ currentToken = Nothing
  /\ ~OutcomeOfTokens(makeTokens(<<"*">>, fileName).tokens).returned

(***************************************************************************)
(* C6: an unrecognised character fails with an illegal-character error     *)
(* that names the character and its line.  As claimed: the error names the *)
(* leftmost character of the input that is not a space, a tab, a digit or  *)
(* one of + - * / ( ).                                                     *)
(***************************************************************************)
NotListed(inp, i) == inp[i] \notin Listed

C6_LeftmostUnlisted ==
  (pc = "thrown" /\ thrown.class = "IllegalCharError") =>
     thrown.arg = input[Leftmost(input, NotListed)]

(***************************************************************************)
(* C6, amended: makeTokens fails if and only if the input has a character  *)
(* that is neither listed nor the first '.' of a number; the error then    *)
(* names the leftmost such character and its line, the lexer has stopped   *)
(* on that character, and no token array has reached the parser.           *)
(***************************************************************************)
C6_IllegalChar ==
  /\ (pc = "thrown" /\ thrown.class = "IllegalCharError") =>
        /\ HasOffending(input)
        /\ LET i == Leftmost(input, Offending)
           IN /\ thrown = IllegalCharArgs(input[i], fileName,
                                          LineOf(input, i))
              /\ error.message
                   = "'" \o input[i] \o "' is an illegal character"
              /\ position.index = i - 1
              /\ currentChar = input[i]
              /\ currentToken = Nothing
              /\ \A k \in 1..Len(tokens) : tokens[k].type # TT_EOF
  /\ (HasOffending(input) /\ Ended) => pc = "thrown"
  /\ (HasOffending(input) /\ pc = "makeTokens") =>
        position.index < Leftmost(input, Offending)
  /\ Lexed => ~HasOffending(input)

\* "2 & 3" is beyond the bound of the whole alphabet: "2&0" has failed on
\* '&', "2.&" has failed on '&' behind a '.' that belongs to the number, and
\* "2.." has failed on the second '.'
C6_Witness ==
  /\ pc = "thrown"
  /\ \/ input = <<"2", "&", "0">> /\ thrown.arg = "&" /\ position.index = 1
     \/ input = <<"2", ".", "&">> /\ thrown.arg = "&" /\ position.index = 2
     \/ input = <<"2", ".", ".">> /\ thrown.arg = "." /\ position.index = 2

(***************************************************************************)
(* C7: parse requires the whole input to be consumed: once an expression   *)
(* has been parsed, a current token other than EndOfInput fails with       *)
(* "Expected '+', '-', '*', or '/'"; and when parse succeeds the cursor is *)
(* on EndOfInput and the tokens before it are exactly the tokens of the    *)
(* tree, in order, and matched parentheses.                                *)
(***************************************************************************)
ExpectedOperator == "Expected '+', '-', '*', or '/'"

RECURSIVE TokensOf(_)
\* the tokens stored in the tree, from left to right
TokensOf(node) ==
  CASE node.class = "NumberNode" -> <<node.token>>
    [] node.class = "UnaryOperationNode" ->
         <<node.operatorToken>> \o TokensOf(node.node)
    [] node.class = "BinaryOperationNode" ->
         TokensOf(node.leftNode) \o <<node.operatorToken>>
         \o TokensOf(node.rightNode)

IsParen(t) == t.type \in {TT_LPAREN, TT_RPAREN}
NotParen(t) == ~IsParen(t)

RECURSIVE Depth(_, _)
\* the number of parentheses open after the first i tokens, -1 once a ')'
\* has closed nothing
Depth(toks, i) ==
  IF i = 0 THEN 0
  ELSE LET d == Depth(toks, i - 1)
       IN IF d < 0 THEN d
          ELSE IF toks[i].type = TT_LPAREN THEN d + 1
          ELSE IF toks[i].type = TT_RPAREN THEN d - 1
          ELSE d

Matched(toks) == Depth(toks, Len(toks)) = 0

FullConsumption ==
  /\ pc = "checkEOF" =>
        IF currentToken.type # TT_EOF
        THEN /\ pc' = "thrown"
             /\ thrown' = InvalidSyntaxArgs(ExpectedOperator, fileName,
                                            LineOf(input, Len(input) + 1))
             /\ ast' = Nothing
        ELSE pc' = "interpret" /\ ast' = parseResult
  /\ (pc' = "thrown" /\ thrown'.arg = ExpectedOperator) =>
        pc = "checkEOF" /\ currentToken.type # TT_EOF
  /\ pc' \in {"interpret", "returned"} =>
        /\ tokenIndex' = Len(tokens') - 1
        /\ currentToken'.type = TT_EOF
        /\ TokensOf(ast'.node) = SelectSeq(Body(tokens'), NotParen)
        /\ Matched(tokens')

C7_FullConsumption == [][FullConsumption]_vars

\* "2 2" and "2)" have failed with the message after a parsed expression
C7_Witness ==
  /\ pc = "thrown"
  /\ thrown.arg = ExpectedOperator
  /\ parseResult # Nothing
  /\ input \in {<<"2", " ", "2">>, <<"2", ")">>}

\* "(2+3)*2" has been parsed: five tokens in the tree, two parentheses
C7_WitnessParsed ==
  /\ pc = "interpret"
  /\ input = <<"(", "2", "+", "3", ")", "*", "2">>
  /\ Len(TokensOf(ast.node)) = 5 /\ Len(tokens) = 8

(***************************************************************************)
(* C8: in factor, after '(' and a completely parsed inner expression, the  *)
(* next token must be ')': any other token, EndOfInput included, fails     *)
(* with "Expected ')'" at the line of the '(' token; a ')' is consumed and *)
(* the node of the inner expression is returned unchanged.                 *)
(***************************************************************************)
ExpectedClose == "Expected ')'"

\* the parser with its cursor on the token of index i (counted from 1)
ParserAt(toks, i) == [tokenIndex |-> i - 1, currentToken |-> toks[i]]

\* the index of the n-th '(' of the text
NthOpen(inp, n) ==
  CHOOSE j \in 1..Len(inp) :
     inp[j] = "(" /\ Cardinality({k \in 1..j : inp[k] = "("}) = n

\* the index in the text of the '(' that token i was made from
OpenOf(inp, toks, i) ==
  NthOpen(inp, Cardinality({k \in 1..i : toks[k].type = TT_LPAREN}))

\* the tokens are ( T with T a complete expression on its own
UnclosedExpression(toks) ==
  /\ Len(toks) >= 3
  /\ toks[1].type = TT_LPAREN
  /\ OutcomeOfTokens(SubSeq(toks, 2, Len(toks))).returned

C8_CloseParen ==
  Lexed =>
    /\ \A i \in 1..(Len(tokens) - 1) :
          LET inner == expression(tokens, ParserAt(tokens, i + 1))
              outer == factor(tokens, ParserAt(tokens, i))
          IN (tokens[i].type = TT_LPAREN /\ ~inner.threw) =>
               IF inner.p.currentToken.type = TT_RPAREN
               THEN /\ ~outer.threw
                    /\ outer.node = inner.node
                    /\ outer.p.tokenIndex = inner.p.tokenIndex + 1
               ELSE /\ outer.threw
                    /\ outer.thrown
                         = InvalidSyntaxArgs(ExpectedClose, fileName,
                                             LineOf(input, OpenOf(input, tokens, i)))
    /\ UnclosedExpression(tokens) =>
          /\ pc \in {"parse", "thrown"}
          /\ pc = "thrown" =>
               thrown = InvalidSyntaxArgs(ExpectedClose, fileName,
                                          LineOf(input, OpenOf(input, tokens, 1)))

\* "(2+3" has failed with the message
C8_Witness ==
  /\ pc = "thrown"
  /\ input = <<"(", "2", "+", "3">>
  /\ UnclosedExpression(tokens)
  /\ thrown.arg = ExpectedClose
  /\ error.message = "'Expected ')'' invalid syntax"

(***************************************************************************)
(* C9, as claimed: run on "2*(3+" fails with a SyntaxError that expects    *)
(* ')'.                                                                    *)
(***************************************************************************)
OpenAfterOperator == <<"2", "*", "(", "3", "+">>

C9_ExpectsClose ==
  (Ended /\ input = OpenAfterOperator) =>
     /\ pc = "thrown"
     /\ thrown.class = "InvalidSyntaxError"
     /\ thrown.arg = ExpectedClose

(***************************************************************************)
(* C9, amended: run on "2*(3+" fails with the SyntaxError "Expected int or *)
(* float": the operand missing after '+' is met before the missing ')'.    *)
(***************************************************************************)
ExpectedOperand == "Expected int or float"

C9_ExpectsOperand ==
  (Ended /\ input = OpenAfterOperator) =>
     /\ pc = "thrown"
     /\ thrown = InvalidSyntaxArgs(ExpectedOperand, fileName, 0)
     /\ currentToken.type = TT_EOF
     /\ result = Nothing

C9_Witness ==
  /\ pc = "thrown"
  /\ input = OpenAfterOperator
  /\ thrown.arg = ExpectedOperand

(***************************************************************************)
(* C10: every error run raises exposes {message, sourceName, line}: the    *)
(* source name passed to run and the line number handed to the error       *)
(* constructor are both readable on the error value.                       *)
(***************************************************************************)
C10_ErrorShape ==
  pc = "thrown" =>
     /\ "message" \in DOMAIN error
     /\ "fileName" \in DOMAIN error
     /\ "lineNumber" \in DOMAIN error
     /\ error.fileName = fileName
     /\ error.lineNumber = thrown.lineNumber

(***************************************************************************)
(* C11: a space or a tab put in where the loop of makeTokens stands (before *)
(* the first token, between two tokens, behind the last one) changes        *)
(* neither the tokens nor the outcome of run, and neither does taking out   *)
(* a space or tab that does not stand between two characters of numbers     *)
(* (digits and '.').                                                        *)
(***************************************************************************)
Blank == {" ", "\t"}

\* inp with w put in behind its first k characters
Insert(inp, k, w) == SubSeq(inp, 1, k) \o <<w>> \o SubSeq(inp, k + 1, Len(inp))

\* inp without its k-th character
Delete(inp, k) == SubSeq(inp, 1, k - 1) \o SubSeq(inp, k + 1, Len(inp))

\* what makeTokens gives the caller: the tokens or the error
LexOutcome(inp) ==
  LET l == makeTokens(inp, fileName)
  IN [threw |-> l.threw, tokens |-> l.tokens, thrown |-> l.thrown]

\* the outcome of run(inp, fileName)
RunOutcome(inp) ==
  LET l == makeTokens(inp, fileName)
  IN IF l.threw THEN Failed(l.thrown) ELSE OutcomeOfTokens(l.tokens)

SameRun(a, b) == LexOutcome(a) = LexOutcome(b) /\ RunOutcome(a) = RunOutcome(b)

\* the loop of makeTokens stands at offset position.index; the inputs are
\* those over the whole alphabet
Inserted ==
  (pc = "makeTokens" /\ Len(input) <= MaxLen) =>
    \A w \in Blank : SameRun(input, Insert(input, position.index, w))

\* the blank at k stands between two characters of numbers
SplitsNumber(inp, k) ==
  /\ 1 < k /\ k < Len(inp)
  /\ inp[k - 1] \in digits \cup {"."}
  /\ inp[k + 1] \in digits \cup {"."}

\* run has ended as it ends on the input without the blank at k
DeletedAt(k) ==
  LET d == Delete(input, k)
  IN /\ RunOutcome(d) = Outcome
     /\ Lexed => LexOutcome(d) = [threw |-> FALSE, tokens |-> tokens,
                                  thrown |-> NoThrow]

C11_Separator ==
  /\ Inserted
  /\ Ended =>
       \A k \in 1..Len(input) :
          (input[k] \in Blank /\ ~SplitsNumber(input, k)) => DeletedAt(k)

\* run returned on an input with a blank between two tokens
C11_Witness ==
  /\ pc = "returned"
  /\ \E k \in 2..(Len(input) - 1) : input[k] \in Blank
  /\ Len(tokens) > 2

\* C11 as stated: every blank can be taken out as well
C11_Insignificant ==
  /\ Inserted
  /\ Ended => \A k \in 1..Len(input) : input[k] \in Blank => DeletedAt(k)

(***************************************************************************)
(* C12: the calls of run are independent: whatever calls came before, a    *)
(* call starts from the state of a first call and ends with the outcome    *)
(* that its own input and file name determine; this holds after a call     *)
(* that failed in the lexer or in the parser too.                          *)
(***************************************************************************)
\* run has just been called: nothing of an earlier call is left
FirstCall ==
  /\ lexer = Lexer(input)
  /\ tokens = <<>>
  /\ tokenIndex = 0 /\ currentToken = Nothing
  /\ parseResult = Nothing /\ ast = Nothing /\ result = Nothing
  /\ thrown = NoThrow /\ error = Nothing

\* the shell has written the error of the call before
AfterFailure == "message" \in DOMAIN printed

C12_Independent ==
  /\ (pc = "makeTokens" /\ position.index = 0) => FirstCall
  /\ Ended => Outcome = RunOutcome(input)

\* a call returns a value after a call that failed
C12_Witness == AfterFailure /\ pc = "returned" /\ input = <<"2", "*", "3">>

(***************************************************************************)
(* C13: run ends in one of three ways only: it returns a number (NaN and   *)
(* the infinities included), or it throws IllegalCharError, or it throws   *)
(* InvalidSyntaxError.  Every tree the parser hands on is one the          *)
(* interpreter evaluates without an error, a division by zero gives an     *)
(* infinity or NaN, and the empty input and the inputs of blanks only end  *)
(* with InvalidSyntaxError 'Expected int or float'.                        *)
(***************************************************************************)
RECURSIVE Evaluable(_)
\* visit finds a method for the node and for every node below it, the switch
\* of visitBinaryOperationNode finds a case, and the literals hold numbers
Evaluable(node) ==
  IF node.class = "NumberNode" THEN node.token.value.k = "fin"
  ELSE IF node.class = "UnaryOperationNode" THEN Evaluable(node.node)
  ELSE IF node.class = "BinaryOperationNode"
  THEN /\ IsBinary(node.operatorToken)
       /\ Evaluable(node.leftNode)
       /\ Evaluable(node.rightNode)
  ELSE FALSE

\* a value of the type number of JavaScript
Numeric(v) == v.k \in {"fin", "inf", "nan"}

RECURSIVE ZeroDivisionsEvaluate(_)
\* every division of node by a zero gives an infinity or NaN
ZeroDivisionsEvaluate(node) ==
  IF node.class = "NumberNode" THEN TRUE
  ELSE IF node.class = "UnaryOperationNode"
  THEN ZeroDivisionsEvaluate(node.node)
  ELSE /\ ZeroDivisionsEvaluate(node.leftNode)
       /\ ZeroDivisionsEvaluate(node.rightNode)
       /\ (/\ node.operatorToken.type = TT_DIVIDE
           /\ IsZero(visit(node.rightNode).value))
          => visit(node).value.k \in {"inf", "nan"}

OnlyBlanks(inp) == \A k \in 1..Len(inp) : inp[k] \in Blank

C13_TwoErrorKinds ==
  /\ pc \in {"makeTokens", "parse", "checkEOF", "interpret", "returned",
             "thrown"}
  /\ pc = "thrown" =>
       /\ error.class \in {"IllegalCharError", "InvalidSyntaxError"}
       /\ error = New(thrown)
       /\ result = Nothing
  /\ pc = "checkEOF" => Evaluable(parseResult.node)
  /\ pc = "interpret" => Evaluable(ast.node)
  /\ pc = "returned" =>
       /\ result.class = "NumberValue" /\ Numeric(result.value)
       /\ error = Nothing
       /\ ZeroDivisionsEvaluate(ast.node)
  /\ (Ended /\ OnlyBlanks(input)) =>
       /\ pc = "thrown"
       /\ thrown = InvalidSyntaxArgs("Expected int or float", fileName, 0)

\* a division by zero has returned an infinity
C13_Witness ==
  /\ pc = "returned"
  /\ input = <<"2", "/", "0">>
  /\ result.value = Inf(FALSE)

(***************************************************************************)
(* C14: the position of a token is a snapshot: once makeTokens has pushed  *)
(* a token, no later step of the lexer changes the offset, line and column *)
(* that the token's position shows.                                        *)
(***************************************************************************)
\* the object the reference ref leads to, where the lexer's Position object
\* is pos
Deref(ref, pos) == IF ref = LexerPosition THEN pos ELSE Position

C14_Snapshot ==
  [][(pc = "makeTokens" /\ pc' \in {"makeTokens", "parse"}) =>
       \A k \in 1..Len(tokens) :
          Deref(tokens'[k].position, position')
            = Deref(tokens[k].position, position)]_vars

(***************************************************************************)
(* C15: when makeTokens returns, the array it returns is not empty, its    *)
(* last token is the TT_EOF token and none before it is; while the loop    *)
(* runs no TT_EOF token is in the array.  The empty input returns the      *)
(* TT_EOF token alone.                                                     *)
(***************************************************************************)
EndsInput(t) == t.type = TT_EOF

C15_OneSentinel ==
  /\ pc = "makeTokens" => \A k \in 1..Len(tokens) : ~EndsInput(tokens[k])
  /\ Lexed =>
       /\ Len(tokens) >= 1
       /\ EndsInput(tokens[Len(tokens)])
       /\ \A k \in 1..(Len(tokens) - 1) : ~EndsInput(tokens[k])
       /\ LexOutcome(input).tokens = tokens
  /\ (Lexed /\ input = <<>>) =>
       tokens = <<Token(TT_EOF, NoNumber, LexerPosition)>>

\* makeTokens has returned on the empty input
C15_Witness == pc = "parse" /\ input = <<>> /\ Len(tokens) = 1

(***************************************************************************)
(* C16: makeNumber, started on a digit, takes the longest run of digits    *)
(* and '.' with at most one '.', and at least the digit it started on; the *)
(* token is TT_FLOAT if a '.' was taken and TT_INT if not; a second '.'    *)
(* stays the lexer's current character, and the loop of makeTokens then    *)
(* throws IllegalCharError for it.                                         *)
(***************************************************************************)
NumberChars == digits \cup {"."}

\* the step from this state is a call of makeNumber
Scans == pc = "makeTokens" /\ NotNull(currentChar) /\ currentChar \in digits

\* the step has taken the characters behind offset s up to offset e
Scanned(s, e) ==
  LET dots == {k \in (s + 1)..e : input[k] = "."}
  IN /\ e > s
     /\ \A k \in (s + 1)..e : input[k] \in NumberChars
     /\ Cardinality(dots) <= 1
     /\ \/ e = Len(input)
        \/ input[e + 1] \notin NumberChars
        \/ input[e + 1] = "." /\ dots # {}
     /\ IF e < Len(input) THEN currentChar' = input[e + 1]
        ELSE ~NotNull(currentChar')
     /\ pc' = "makeTokens"
     /\ Len(tokens') = Len(tokens) + 1
     /\ SubSeq(tokens', 1, Len(tokens)) = tokens
     /\ tokens'[Len(tokens')].type = IF dots # {} THEN TT_FLOAT ELSE TT_INT

ScanIsMaximal == Scans => Scanned(position.index, position'.index)

\* makeNumber has stopped in front of a second '.'
StoppedAtDot ==
  /\ pc = "makeTokens" /\ currentChar = "."
  /\ position.index >= 1 /\ input[position.index] \in NumberChars

C16_NumberScan ==
  [][/\ ScanIsMaximal
     /\ StoppedAtDot =>
          /\ pc' = "thrown"
          /\ thrown' = IllegalCharArgs(".", fileName, position.lineNumber)
          /\ tokens' = tokens]_vars

\* a scan has stopped in front of the second '.' with a float token
C16_Witness ==
  /\ StoppedAtDot
  /\ Len(tokens) = 1 /\ tokens[1].type = TT_FLOAT
  /\ position.index = 2

\* C16 as stated: the second '.' starts the next token
C16_DotStartsToken ==
  [][/\ ScanIsMaximal
     /\ StoppedAtDot =>
          /\ pc' = "makeTokens"
          /\ Len(tokens') = Len(tokens) + 1]_vars

(***************************************************************************)
(* C17: the nodes the parser constructs keep to the operator sets of the   *)
(* grammar: where expression constructs a node it is a                     *)
(* BinaryOperationNode with '+' or '-', where term constructs one it is a  *)
(* BinaryOperationNode with '*' or '/', the node factor constructs is a    *)
(* UnaryOperationNode with '+' or '-' or a NumberNode with an int or float *)
(* token, and no parenthesis and no TT_EOF token is stored in a tree.      *)
(***************************************************************************)
RECURSIVE Grammatical(_)
\* every node at and below node holds a token of its kind
Grammatical(node) ==
  IF node.class = "NumberNode" THEN IsNumber(node.token)
  ELSE IF node.class = "UnaryOperationNode"
  THEN IsSign(node.operatorToken) /\ Grammatical(node.node)
  ELSE IF node.class = "BinaryOperationNode"
  THEN /\ IsBinary(node.operatorToken)
       /\ Grammatical(node.leftNode)
       /\ Grammatical(node.rightNode)
  ELSE FALSE

\* r is a BinaryOperationNode with an operator of ops
Builds(r, ops) ==
  /\ r.node.class = "BinaryOperationNode"
  /\ r.node.operatorToken.type \in ops

\* what factor, term and expression return from the token of index i: term
\* and expression return what the level below returned or a node of their own
BuiltAt(toks, i) ==
  LET f == factor(toks, ParserAt(toks, i))
      t == term(toks, ParserAt(toks, i))
      e == expression(toks, ParserAt(toks, i))
  IN /\ ~f.threw =>
          IF IsSign(toks[i])
          THEN /\ f.node.class = "UnaryOperationNode"
               /\ f.node.operatorToken = toks[i]
          ELSE IF IsNumber(toks[i]) THEN f.node = NumberNode(toks[i])
          ELSE /\ toks[i].type = TT_LPAREN
               /\ f.node = expression(toks, ParserAt(toks, i + 1)).node
     /\ ~t.threw => (t = f \/ Builds(t, {TT_MULTIPLY, TT_DIVIDE}))
     /\ ~e.threw => (e = t \/ Builds(e, {TT_ADD, TT_SUBTRACT}))

C17_OperatorSets ==
  /\ pc = "parse" => \A i \in 1..Len(tokens) : BuiltAt(tokens, i)
  /\ pc = "checkEOF" =>
       /\ Grammatical(parseResult.node)
       /\ \A k \in 1..Len(TokensOf(parseResult.node)) :
             TokensOf(parseResult.node)[k].type
               \notin {TT_LPAREN, TT_RPAREN, TT_EOF}

\* the parser has returned a sum of a number and a product
C17_Witness ==
  /\ pc = "checkEOF"
  /\ Builds([node |-> parseResult.node], {TT_ADD, TT_SUBTRACT})
  /\ Builds([node |-> parseResult.node.rightNode], {TT_MULTIPLY, TT_DIVIDE})
  /\ parseResult.node.leftNode.class = "NumberNode"

(***************************************************************************)
(* C18: every call of run ends.  An iteration of the loop of makeTokens    *)
(* moves the lexer forward by at least one character or throws; a call of  *)
(* factor and an iteration of the loop of binaryOperation move the cursor  *)
(* of the parser forward by at least one token or throw; the cursor stays  *)
(* on a token of the array, an advance at the TT_EOF token keeps that      *)
(* token as the current one, and the loops of binaryOperation end there.   *)
(* Every step of a call lowers a rank that is never negative, and a call   *)
(* that has started reaches its return or its throw.                       *)
(***************************************************************************)
\* the steps a call has left at most, stage by stage
Rank ==
  CASE pc = "makeTokens" -> 4 + Len(input) - position.index
    [] pc = "parse" -> 3
    [] pc = "checkEOF" -> 2
    [] pc = "interpret" -> 1
    [] Ended -> 0

LexerConsumes ==
  (pc = "makeTokens" /\ NotNull(currentChar)) =>
     \/ pc' = "thrown"
     \/ pc' = "makeTokens" /\ position'.index > position.index

\* factor, and an iteration of a loop of binaryOperation, from the token of
\* index i
ParserConsumes(toks, i) ==
  LET f == factor(toks, ParserAt(toks, i))
      loop(shouldFactor, ops) ==
        binaryOperationLoop(toks, ParserAt(toks, i), NullNode, shouldFactor,
                            ops)
      iterates(shouldFactor, ops) ==
        IF toks[i].type \in ops
        THEN \/ loop(shouldFactor, ops).threw
             \/ loop(shouldFactor, ops).p.tokenIndex > i - 1
        ELSE loop(shouldFactor, ops) = Success(ParserAt(toks, i), NullNode)
  IN /\ f.threw \/ f.p.tokenIndex > i - 1
     /\ iterates(TRUE, {TT_MULTIPLY, TT_DIVIDE})
     /\ iterates(FALSE, {TT_ADD, TT_SUBTRACT})

\* the cursor of the parser is on a token of the array
CursorOnToken ==
  /\ tokenIndex < Len(tokens)
  /\ currentToken = tokens[tokenIndex + 1]

HoldsLastToken(toks) ==
  LET last == ParserAt(toks, Len(toks))
  IN /\ last.currentToken.type = TT_EOF
     /\ Parser_advance(toks, last).currentToken = toks[Len(toks)]
     /\ Parser_advance(toks, Parser_advance(toks, last)).currentToken
          = toks[Len(toks)]

Progress ==
  /\ Rank >= 0
  /\ ~Ended => Rank' < Rank
  /\ LexerConsumes
  /\ pc = "parse" =>
       /\ \A i \in 1..Len(tokens) : ParserConsumes(tokens, i)
       /\ HoldsLastToken(tokens)
  /\ Lexed => CursorOnToken

C18_Terminates == [][Progress]_vars /\ ((pc = "makeTokens") ~> Ended)

\* the parser stands on the TT_EOF token behind an expression it has parsed
C18_Witness ==
  /\ pc = "checkEOF"
  /\ currentToken.type = TT_EOF
  /\ tokenIndex = Len(tokens) - 1
  /\ Len(tokens) > 3

(***************************************************************************)
(* C19: the lexer never consumes a line end: no character behind which the *)
(* lexer stands is a line end, an input whose leftmost character the lexer *)
(* cannot take is a line end fails with the IllegalCharError for it, the   *)
(* line number of the lexer is 0 in every state, and 0 is the line number  *)
(* every error is constructed with.                                        *)
(***************************************************************************)
NewlineFirst(inp) ==
  /\ HasOffending(inp)
  /\ inp[Leftmost(inp, Offending)] = "\n"

C19_LineZero ==
  /\ position.lineNumber = 0
  /\ position.column = position.index
  /\ \A k \in 1..position.index : input[k] # "\n"
  /\ pc = "thrown" => thrown.lineNumber = 0
  /\ (Ended /\ NewlineFirst(input)) =>
       /\ pc = "thrown"
       /\ thrown = IllegalCharArgs("\n", fileName, 0)
       /\ position.index = Leftmost(input, Offending) - 1

\* run has thrown for a line end behind a token
C19_Witness ==
  /\ pc = "thrown"
  /\ thrown.arg = "\n"
  /\ Len(tokens) >= 1

====
